---- MODULE Spec2Model ----
(***************************************************************************)
(* Substation Digital Twin API (main.py): the in-memory store              *)
(* substation_data and the FastAPI handlers that append to it and read it. *)
(*                                                                         *)
(* A reading is [id, v]: id is the equipment id (transformer_id,           *)
(* breaker_id, busbar_id) and v stands for the measurement fields and the  *)
(* timestamp, none of which a handler ever inspects.  An alarm is          *)
(* [alarm_id, severity].  Every handler is an `async def` without an       *)
(* await, so the event loop runs it to completion before the next one.     *)
(***************************************************************************)
EXTENDS Integers, Sequences, FiniteSets, TLC

\* ----------------------------------------------------------------- constants
Cap == 100
AlarmTail == 10

\* -------------------------------------------------------------------- bounds
MaxWrites == 3
MaxVal == 2
Slack == 2
MaxOver == 2

Categories == {"transformers", "circuit_breakers", "busbars"}
Keys == Categories \cup {"alarms"}
Ids == {"T1", "T2"}
Severities == {"critical", "warning"}
None == "<None>"
Filters == {None, "", "critical", "warning", "CRITICAL"}
Times == {1, 2}

VARIABLES substation_data, resp, pc, ingested

vars == <<substation_data, resp, pc, ingested>>

\* ------------------------------------------------------------ python helpers
\* s[:k], the slip that keeps the head instead of the tail
SliceFirst(s, k) ==
    IF Len(s) <= k THEN s ELSE SubSeq(s, 1, k)

\* s[-k:]
SliceLast(s, k) ==
    IF Len(s) <= k THEN s ELSE SubSeq(s, Len(s) - k + 1, Len(s))

\* [x for x in s if x[field] == value], for the id field of a reading
FilterId(s, id) ==
    LET Keep(x) == x.id = id IN SelectSeq(s, Keep)

\* str.lower() on the severities of the model
Lower(x) == IF x = "CRITICAL" THEN "critical" ELSE x

\* a["severity"].lower() == severity.lower(), the slip that ignores case
FilterSeverityAnyCase(s, severity) ==
    LET Keep(a) == Lower(a.severity) = Lower(severity) IN SelectSeq(s, Keep)

\* [a for a in alarms if a["severity"] == severity]
FilterSeverity(s, severity) ==
    LET Keep(a) == a.severity = severity IN SelectSeq(s, Keep)

\* `if severity:` - None and the empty string are both falsy
Truthy(severity) == severity # None /\ severity # ""

\* d.setdefault(k, val), the slip that keeps the first value of a key
DictSetDefault(d, k, val) ==
    IF \E i \in 1..Len(d) : d[i].key = k
    THEN d
    ELSE Append(d, [key |-> k, value |-> val])

\* d[k] = val on an insertion-ordered dict, kept as a sequence of entries
DictSet(d, k, val) ==
    IF \E i \in 1..Len(d) : d[i].key = k
    THEN LET i == CHOOSE j \in 1..Len(d) : d[j].key = k
         IN [d EXCEPT ![i] = [key |-> k, value |-> val]]
    ELSE Append(d, [key |-> k, value |-> val])

\* list(d.values())
DictValues(d) == [i \in 1..Len(d) |-> d[i].value]

\* latest = {}; for t in s[lo..hi]: latest[t[id]] = t
\* The loop body is applied left to right.  The range is halved, and the first
\* half's dict is looked at (it holds a key, lo <= mid) before the second half
\* starts, only so that the evaluation stays shallow on a full list.
RECURSIVE LatestLoop(_, _, _, _)
LatestLoop(s, lo, hi, d) ==
    IF lo > hi THEN d
    ELSE IF lo = hi THEN DictSet(d, s[lo].id, s[lo])
    ELSE LET mid == (lo + hi) \div 2
             left == LatestLoop(s, lo, mid, d)
         IN IF Len(left) = 0 THEN left ELSE LatestLoop(s, mid + 1, hi, left)

LatestDict(s) == LatestLoop(s, 1, Len(s), <<>>)

\* HTTPException(status_code=..., <kw>=...): the constructor accepts detail and
\* headers; any other keyword is a TypeError, which the server answers with 500
HTTPException(status_code, kw) ==
    IF kw \in {"detail", "headers"} THEN status_code ELSE 500

\* ----------------------------------------------------------------- responses
Response(op, arg, status, body) ==
    [op |-> op, arg |-> arg, status |-> status, body |-> body]

Idle == [at |-> "idle", key |-> "", data |-> <<>>]

\* `def` handlers run on a thread pool: one may start while another runs
ThreadPoolFree == TRUE

\* async def handlers never yield: a handler starts only when none is running
EventLoopFree == pc.at = "idle"

Init ==
    /\ substation_data = [k \in Keys |-> <<>>]
    /\ ingested = [k \in Keys |-> <<>>]
    /\ resp = Response("init", "", 0, <<>>)
    /\ pc = Idle

\* ------------------------------------------------------------------ handlers
\* substation_data[key].append(data.dict())
Appended(key, data) ==
    [substation_data EXCEPT ![key] = Append(@, data)]

\* substation_data[key] = substation_data[key][-100:]
Trimmed(store, key) ==
    [store EXCEPT ![key] = SliceLast(@, Cap)]

AddData(op, key, data) ==
    /\ EventLoopFree
    /\ substation_data' = Trimmed(Appended(key, data), key)
    /\ ingested' = [ingested EXCEPT ![key] = Append(@, data)]
    /\ resp' = Response(op, data.id, 201, [status |-> "success", data |-> data])
    /\ UNCHANGED pc

add_transformer_data(data) == AddData("add_transformer_data", "transformers", data)

add_breaker_data(data) == AddData("add_breaker_data", "circuit_breakers", data)

add_busbar_data(data) == AddData("add_busbar_data", "busbars", data)

\* create_alarm with the equipment handlers' trimming line copied in
create_alarm_capped(data) ==
    /\ EventLoopFree
    /\ substation_data' = Trimmed(Appended("alarms", data), "alarms")
    /\ ingested' = [ingested EXCEPT !["alarms"] = Append(@, data)]
    /\ resp' = Response("create_alarm", "", 201, [status |-> "success", data |-> data])
    /\ UNCHANGED pc

create_alarm(data) ==
    /\ EventLoopFree
    /\ substation_data' = Appended("alarms", data)
    /\ ingested' = [ingested EXCEPT !["alarms"] = Append(@, data)]
    /\ resp' = Response("create_alarm", "", 201, [status |-> "success", data |-> data])
    /\ UNCHANGED pc

GetAll(op, key) ==
    /\ EventLoopFree
    /\ resp' = Response(op, "", 200,
                        [count |-> Len(substation_data[key]),
                         data |-> substation_data[key]])
    /\ UNCHANGED <<substation_data, ingested, pc>>

get_all_transformers == GetAll("get_all_transformers", "transformers")

get_all_breakers == GetAll("get_all_breakers", "circuit_breakers")

get_all_busbars == GetAll("get_all_busbars", "busbars")

\* get-by-id with latest = readings[0], the slip that returns the oldest
GetByIdOldest(op, key, id) ==
    LET readings == FilterId(substation_data[key], id) IN
    /\ EventLoopFree
    /\ resp' = IF readings = <<>>
               THEN Response(op, id, HTTPException(404, "message"), <<>>)
               ELSE Response(op, id, 200,
                             [id |-> id,
                              latest |-> readings[1],
                              history |-> readings])
    /\ UNCHANGED <<substation_data, ingested, pc>>

GetById(op, key, id) ==
    LET readings == FilterId(substation_data[key], id) IN
    /\ EventLoopFree
    /\ resp' = IF readings = <<>>
               THEN Response(op, id, HTTPException(404, "message"), <<>>)
               ELSE Response(op, id, 200,
                             [id |-> id,
                              latest |-> readings[Len(readings)],
                              history |-> readings])
    /\ UNCHANGED <<substation_data, ingested, pc>>

get_transformer(transformer_id) ==
    GetById("get_transformer", "transformers", transformer_id)

get_breaker(breaker_id) ==
    GetById("get_breaker", "circuit_breakers", breaker_id)

\* get_alarms that binds the filtered list back into the store
get_alarms_rebinding(severity) ==
    LET all == substation_data["alarms"]
        alarms == IF Truthy(severity) THEN FilterSeverity(all, severity) ELSE all
    IN
    /\ EventLoopFree
    /\ resp' = Response("get_alarms", severity, 200,
                        [count |-> Len(alarms), data |-> alarms])
    /\ substation_data' = [substation_data EXCEPT !["alarms"] = alarms]
    /\ UNCHANGED <<ingested, pc>>

get_alarms(severity) ==
    LET all == substation_data["alarms"]
        alarms == IF Truthy(severity) THEN FilterSeverity(all, severity) ELSE all
    IN
    /\ EventLoopFree
    /\ resp' = Response("get_alarms", severity, 200,
                        [count |-> Len(alarms), data |-> alarms])
    /\ UNCHANGED <<substation_data, ingested, pc>>

\* [a for a in alarms][:10], the slip that takes the oldest alarms
ActiveAlarmsHead(alarms) == SliceFirst(alarms, AlarmTail)

\* [a for a in substation_data["alarms"]][-10:]
ActiveAlarms(alarms) == SliceLast(alarms, AlarmTail)

\* now is datetime.now().isoformat() at the time of the call
get_dashboard(now) ==
    LET latest_transformers == LatestDict(substation_data["transformers"])
        latest_breakers == LatestDict(substation_data["circuit_breakers"])
        latest_busbars == LatestDict(substation_data["busbars"])
        active_alarms == ActiveAlarms(substation_data["alarms"])
    IN
    /\ EventLoopFree
    /\ resp' = Response("get_dashboard", "", 200,
                 [timestamp |-> now,
                  transformers |-> DictValues(latest_transformers),
                  circuit_breakers |-> DictValues(latest_breakers),
                  busbars |-> DictValues(latest_busbars),
                  alarms |-> active_alarms,
                  statistics |->
                     [total_transformers |-> Len(latest_transformers),
                      total_breakers |-> Len(latest_breakers),
                      total_busbars |-> Len(latest_busbars),
                      active_alarms |-> Len(active_alarms)]])
    /\ UNCHANGED <<substation_data, ingested, pc>>

\* --------------------------------------------------------------- the clients
Reads ==
    \/ get_all_transformers
    \/ get_all_breakers
    \/ get_all_busbars
    \/ \E id \in Ids : get_transformer(id)
    \/ \E id \in Ids : get_breaker(id)
    \/ \E severity \in Filters : get_alarms(severity)
    \/ \E now \in Times : get_dashboard(now)

RECURSIVE SumLen(_, _)
SumLen(f, ks) ==
    IF ks = {} THEN 0
    ELSE LET k == CHOOSE x \in ks : TRUE IN Len(f[k]) + SumLen(f, ks \ {k})

Writes == SumLen(ingested, Keys)

Readings == [id : Ids, v : 1..MaxVal]

NextAlarm(severity) == [alarm_id |-> Len(ingested["alarms"]) + 1, severity |-> severity]

\* Any client, any payload, at most MaxWrites posts in all.
Next ==
    \/ Writes < MaxWrites /\ \E data \in Readings : add_transformer_data(data)
    \/ Writes < MaxWrites /\ \E data \in Readings : add_breaker_data(data)
    \/ Writes < MaxWrites /\ \E data \in Readings : add_busbar_data(data)
    \/ Writes < MaxWrites /\ \E severity \in Severities : create_alarm(NextAlarm(severity))
    \/ Reads

Spec == Init /\ [][Next]_vars

\* ------------------------------------------------- the simulator as a client
\* transformers = ["T1", "T2"], posted in turn on every cycle
SimId(i) == IF i % 2 = 1 THEN "T1" ELSE "T2"

\* check_alarms raises "warning" for oil temperature, "critical" for winding
SimSeverity(i) == IF i % 2 = 1 THEN "warning" ELSE "critical"

\* One stream of posts at a time: the other logs are still empty.
Focus(key) == \A k \in Keys \ {key} : ingested[k] = <<>>

\* The i-th post of a stream carries v = i.  The simulator's pattern is followed
\* until the stream is Slack short of the cap; from there any id may come.
CapReadings(key) ==
    LET i == Len(ingested[key]) + 1 IN
    IF i > Cap + MaxOver THEN {}
    ELSE IF i <= Cap - Slack THEN {[id |-> SimId(i), v |-> i]}
    ELSE [id : Ids, v : {i}]

CapAlarms ==
    LET i == Len(ingested["alarms"]) + 1 IN
    IF i > Cap + MaxOver THEN {}
    ELSE IF i <= Cap - Slack THEN {[alarm_id |-> i, severity |-> SimSeverity(i)]}
    ELSE [alarm_id : {i}, severity : Severities]

NextCap ==
    \/ Focus("transformers") /\ \E data \in CapReadings("transformers") : add_transformer_data(data)
    \/ Focus("circuit_breakers") /\ \E data \in CapReadings("circuit_breakers") : add_breaker_data(data)
    \/ Focus("busbars") /\ \E data \in CapReadings("busbars") : add_busbar_data(data)
    \/ Focus("alarms") /\ \E data \in CapAlarms : create_alarm(data)
    \/ Reads

SpecCap == Init /\ [][NextCap]_vars

\* ------------------------------------------- an ingest handler, line by line
\* substation_data[key].append(data.dict()), the handler's first statement
AddAppend(op, key, data) ==
    /\ EventLoopFree
    /\ substation_data' = Appended(key, data)
    /\ pc' = [at |-> op, key |-> key, data |-> data]
    /\ UNCHANGED <<resp, ingested>>

\* substation_data[key] = substation_data[key][-100:]; return {...}
AddTrimReturn ==
    /\ pc.at # "idle"
    /\ substation_data' = Trimmed(substation_data, pc.key)
    /\ ingested' = [ingested EXCEPT ![pc.key] = Append(@, pc.data)]
    /\ resp' = Response(pc.at, pc.data.id, 201, [status |-> "success", data |-> pc.data])
    /\ pc' = Idle

NextConc ==
    \/ Focus("transformers") /\ \E data \in CapReadings("transformers") :
          AddAppend("add_transformer_data", "transformers", data)
    \/ Focus("circuit_breakers") /\ \E data \in CapReadings("circuit_breakers") :
          AddAppend("add_breaker_data", "circuit_breakers", data)
    \/ Focus("busbars") /\ \E data \in CapReadings("busbars") :
          AddAppend("add_busbar_data", "busbars", data)
    \/ AddTrimReturn
    \/ Reads

SpecConc == Init /\ [][NextConc]_vars

\* ================================================================== claims
\* What a claim says of a response is stated against the log of accepted posts
\* (ingested) and the store, without the handlers' own helpers.

ListOp == [transformers |-> "get_all_transformers",
           circuit_breakers |-> "get_all_breakers",
           busbars |-> "get_all_busbars"]

GetOp == [transformers |-> "get_transformer", circuit_breakers |-> "get_breaker"]

GetKeys == {"transformers", "circuit_breakers"}

Min(a, b) == IF a < b THEN a ELSE b

\* out is the last Min(Len(log), n) elements of log, in order
IsTail(out, log, n) ==
    /\ Len(out) = Min(Len(log), n)
    /\ \A i \in 1..Len(out) : out[i] = log[Len(log) - Len(out) + i]

\* the last Min(Len(log), n) elements of log
TailOf(log, n) ==
    LET m == Min(Len(log), n) IN [i \in 1..m |-> log[Len(log) - m + i]]

\* the positions of log that hold a reading of id
Positions(log, id) == {i \in 1..Len(log) : log[i].id = id}

\* out is the subsequence of log made of the readings of id, in order
IsHistory(out, log, id) ==
    /\ Len(out) = Cardinality(Positions(log, id))
    /\ \A i \in 1..Len(out) :
          \E p \in Positions(log, id) :
             /\ Cardinality({q \in Positions(log, id) : q <= p}) = i
             /\ out[i] = log[p]

LastPos(s, id) == CHOOSE p \in Positions(s, id) : \A q \in Positions(s, id) : q <= p

FirstPos(s, id) == CHOOSE p \in Positions(s, id) : \A q \in Positions(s, id) : p <= q

\* out holds one reading per distinct id of s, the one nearest the tail, and
\* the ids come in the order of their first occurrence in s
IsLatestPerId(out, s) ==
    /\ Len(out) = Cardinality({s[i].id : i \in 1..Len(s)})
    /\ \A i \in 1..Len(out) :
          /\ Positions(s, out[i].id) # {}
          /\ out[i] = s[LastPos(s, out[i].id)]
    /\ \A i, j \in 1..Len(out) :
          i < j => FirstPos(s, out[i].id) < FirstPos(s, out[j].id)

\* C2: the dashboard's latest-per-id list of a category holds exactly one
\* reading per distinct id of the stored sequence, the last inserted one
\* whatever its payload, ordered by the first occurrence of each id.
C2_LatestPerId ==
    resp.op = "get_dashboard" =>
       /\ IsLatestPerId(resp.body.transformers, substation_data["transformers"])
       /\ IsLatestPerId(resp.body.circuit_breakers, substation_data["circuit_breakers"])
       /\ IsLatestPerId(resp.body.busbars, substation_data["busbars"])

\* C2 witness: [T1 v2, T2 v1, T1 v1] yields [T1 v1, T2 v1]: T1 comes first and
\* its last inserted reading wins over the one with the larger payload.
C2_Witness ==
    /\ resp.op = "get_dashboard"
    /\ substation_data["transformers"] =
          <<[id |-> "T1", v |-> 2], [id |-> "T2", v |-> 1], [id |-> "T1", v |-> 1]>>
    /\ resp.body.transformers = <<[id |-> "T1", v |-> 1], [id |-> "T2", v |-> 1]>>

\* C3: get-by-id for an id with no stored reading ends in a 404 and leaves the
\* store as it was.
C3_NotFoundIs404 ==
    \A key \in GetKeys :
       (resp.op = GetOp[key] /\ Positions(substation_data[key], resp.arg) = {})
          => resp.status = 404

\* the alarms of log whose severity is sev, in order
IsSeverityMatch(out, log, sev) ==
    LET pos == {i \in 1..Len(log) : log[i].severity = sev} IN
    /\ Len(out) = Cardinality(pos)
    /\ \A i \in 1..Len(out) :
          \E p \in pos : /\ Cardinality({q \in pos : q <= p}) = i
                         /\ out[i] = log[p]

\* C4 as claimed: every filter value that is given selects exactly the alarms
\* of that severity; no filter returns the whole log.
C4_SeverityFilterAnyValue ==
    resp.op = "get_alarms" =>
       /\ resp.body.count = Len(resp.body.data)
       /\ IF resp.arg = None
          THEN resp.body.data = substation_data["alarms"]
          ELSE IsSeverityMatch(resp.body.data, substation_data["alarms"], resp.arg)

\* C4 as amended: a non-empty filter selects exactly the alarms whose severity
\* equals it (case-sensitive), in insertion order, with count the number
\* returned; no filter, or the empty string, returns the whole log.
C4_SeverityFilter ==
    resp.op = "get_alarms" =>
       /\ resp.body.count = Len(resp.body.data)
       /\ IF resp.arg \in {None, ""}
          THEN resp.body.data = substation_data["alarms"]
          ELSE IsSeverityMatch(resp.body.data, substation_data["alarms"], resp.arg)

\* C4 witness: severities [critical, warning, critical] filtered by "critical"
\* give the 1st and the 3rd alarm.
C4_Witness ==
    LET alarms == substation_data["alarms"] IN
    /\ resp.op = "get_alarms"
    /\ resp.arg = "critical"
    /\ Len(alarms) = 3
    /\ <<alarms[1].severity, alarms[2].severity, alarms[3].severity>> =
          <<"critical", "warning", "critical">>
    /\ resp.body.count = 2
    /\ resp.body.data = <<alarms[1], alarms[3]>>

ReadOps == {"get_all_transformers", "get_all_breakers", "get_all_busbars",
            "get_transformer", "get_breaker", "get_alarms", "get_dashboard"}

\* a response without the time of the call
Timeless(r) ==
    IF r.op = "get_dashboard"
    THEN [r EXCEPT !.body = [@ EXCEPT !.timestamp = 0]]
    ELSE r

\* C5 as claimed: a read changes no stored sequence, and the same read made
\* twice in a row returns identical results.
C5_ReadsRepeat ==
    [][resp'.op \in ReadOps =>
          /\ substation_data' = substation_data
          /\ (resp.op = resp'.op /\ resp.arg = resp'.arg) => resp' = resp]_vars

\* C5 as amended: the same, but for the dashboard's timestamp, which is the
\* time of each call.
C5_ReadsRepeatButClock ==
    [][resp'.op \in ReadOps =>
          /\ substation_data' = substation_data
          /\ (resp.op = resp'.op /\ resp.arg = resp'.arg) =>
                Timeless(resp') = Timeless(resp)]_vars

\* C5 witness: a dashboard read over a store that holds readings of two
\* transformers and an alarm, all still there after the read.
C5_Witness ==
    /\ resp.op = "get_dashboard"
    /\ resp.body.statistics.total_transformers = 2
    /\ resp.body.statistics.active_alarms = 1
    /\ Len(substation_data["transformers"]) = 2
    /\ Len(substation_data["alarms"]) = 1

\* C6: for an id with a stored reading, get-by-id returns as history the
\* readings of that id in stored order and as latest the last of them.
C6_History ==
    \A key \in GetKeys :
       (resp.op = GetOp[key] /\ Positions(substation_data[key], resp.arg) # {}) =>
          /\ resp.status = 200
          /\ resp.body.id = resp.arg
          /\ IsHistory(resp.body.history, substation_data[key], resp.arg)
          /\ resp.body.latest = resp.body.history[Len(resp.body.history)]

\* C6 witness: a history of two readings of one id around a reading of
\* another, the latest being the second.
C6_Witness ==
    /\ resp.op = "get_breaker"
    /\ resp.arg = "T1"
    /\ substation_data["circuit_breakers"] =
          <<[id |-> "T1", v |-> 1], [id |-> "T2", v |-> 1], [id |-> "T1", v |-> 2]>>
    /\ resp.body.history = <<[id |-> "T1", v |-> 1], [id |-> "T1", v |-> 2]>>
    /\ resp.body.latest = [id |-> "T1", v |-> 2]

C8_AtomicAppendEvict ==
    /\ \A key \in Categories :
          resp.op = ListOp[key] =>
             /\ resp.body.count <= Cap
             /\ IsTail(resp.body.data, ingested[key], Cap)
    /\ \A key \in GetKeys :
          (resp.op = GetOp[key] /\ resp.status = 200) =>
             /\ Len(resp.body.history) <= Cap
             /\ IsHistory(resp.body.history, TailOf(ingested[key], Cap), resp.arg)
    /\ pc.at = "idle" =>
          \A key \in Categories : IsTail(substation_data[key], ingested[key], Cap)

\* C8 witness: an ingest stands between its append and its trim with 101
\* readings in the list, and the read answered last, before it began, saw 100.
C8_Witness ==
    /\ pc.at = "add_transformer_data"
    /\ Len(substation_data["transformers"]) = Cap + 1
    /\ resp.op = "get_all_transformers"
    /\ resp.body.count = Cap

\* C9: the alarm log is every alarm ever created, once each and in creation
\* order, so its length is the number of create-alarm calls.
C9_AlarmsNeverEvicted ==
    /\ substation_data["alarms"] = ingested["alarms"]
    /\ \A i \in 1..Len(substation_data["alarms"]) :
          substation_data["alarms"][i].alarm_id = i
    /\ (resp.op = "get_alarms" /\ resp.arg = None) =>
          resp.body.count = Len(ingested["alarms"])

\* C9 witness: more alarms in the log than an equipment category may hold.
C9_Witness ==
    /\ Len(substation_data["alarms"]) = Cap + 1
    /\ substation_data["alarms"][1].alarm_id = 1
    /\ resp.op = "get_alarms"
    /\ resp.arg = None
    /\ resp.body.count = Cap + 1

\* C10: for every transformer id that received k readings, the history
\* returned for it is its own last min(k, 100) readings, whatever the other
\* transformers received in between.
C10_LastPerTransformer ==
    LET Mine(x) == x.id = resp.arg
        mine == SelectSeq(ingested["transformers"], Mine)
    IN
    (resp.op = "get_transformer" /\ mine # <<>>) =>
       /\ resp.status = 200
       /\ IsTail(resp.body.history, mine, Cap)

====
